---- MODULE Spec2Model ----
(***************************************************************************)
(* RuntimeEstimator (torch/distributed/_tools/runtime_estimator.py): a     *)
(* TorchDispatchMode that routes every intercepted operation through the   *)
(* selected estimation strategy and attributes the elapsed time to the     *)
(* scopes the ModTracker reports open.                                     *)
(*                                                                         *)
(* Times are milliseconds.  The timed interval read from the CUDA events   *)
(* is drawn from the multiples of actual_iters, so that the division       *)
(* cuda_time / actual_iters is exact on integers.                          *)
(***************************************************************************)
EXTENDS Integers, Sequences, FiniteSets, TLC

\* ---------------------------------------------------------------- bounds
MaxTotal == 2      \* total_runtime (ms) at which no further operation is intercepted
MaxOperands == 1   \* symbolic operands of one operation
MaxOuts == 1       \* outputs of one operation
MaxEvents == 1     \* tracker events recorded per activation
MaxLog == 3        \* tracker events of one window followed event by event

\* ------------------------------------------------------- program constants
warmup_iters == 2
actual_iters == 3

\* Operation kinds (overload packets), one per class the code distinguishes.
\*   view        in _VIEW_OPS
\*   randn       in _CREATE_OPS
\*   transpose_  carries torch.Tag.inplace_view
\*   mm          has a formula in flop_registry
\*   add         none of the above
Ops == {"view", "randn", "transpose_", "mm", "add"}

_VIEW_OPS == {"view"}
_CREATE_OPS == {"randn"}
_IGNORE_OPS == _VIEW_OPS \cup _CREATE_OPS
InplaceViewOps == {"transpose_"}

Scopes == {"M", "M.L"}
Phases == {"fw", "bw"}
HookNames == {"pre_fw_hook", "pre_bw_hook", "post_fw_hook", "post_bw_hook"}

ModeNames == {"operator-level-benchmark", "operator-level-cost-model",
              "operator-level-learned-cost-model", "operator-level-learned-model",
              "unknown-mode"}
\* The modes the docstring of __call__ lists as currently supported.
DocumentedModes == {"operator-level-benchmark", "operator-level-cost-model",
                    "operator-level-learned-cost-model", "operator-level-learned-model"}

VARIABLES
    estimate,            \* self._estimate ("unset" until __call__)
    estimate_mode_type,  \* self._estimate_mode_type ("unset" until __call__)
    active,              \* this mode is on the dispatch-mode stack (0 or 1)
    fake_mode,           \* RuntimeEstimator.fake_mode (class attribute)
    no_fallback_kernel,  \* RuntimeEstimator._no_fallback_kernel (class attribute)
    total_runtime,
    mod_runtimes,
    mod_fw_pre_order,
    mod_bw_pre_order,
    mod_fw_post_order,
    mod_bw_post_order,
    parents,             \* ModTracker.parents: the scopes open now
    is_bw,               \* ModTracker.is_bw: the phase
    user_hooks,          \* the user hooks registered with the ModTracker
    tracker_entered,     \* ModTracker.__enter__ has run
    live_fake_mode,      \* what active_fake_mode() returns now
    raised,              \* exception the last call let through ("none")
    last_op,             \* what the last intercepted operation did
    printed,             \* the fallback kinds the last __exit__ (of any instance) printed
    dirty_at_enter,      \* history: __enter__ has just returned, and it had found a
                         \* non-zero total, a scope record and a non-empty order log
    elapsed,             \* history: sum of the elapsed times the strategy returned
                         \* since the last activation
    elapsed_while        \* history: the same sum per scope and phase, over the
                         \* operations during which the tracker reported the scope
                         \* open in that phase

vars == <<estimate, estimate_mode_type, active, fake_mode, no_fallback_kernel,
          total_runtime, mod_runtimes, mod_fw_pre_order, mod_bw_pre_order,
          mod_fw_post_order, mod_bw_post_order, parents, is_bw, user_hooks,
          tracker_entered, live_fake_mode, raised, last_op, printed,
          dirty_at_enter, elapsed, elapsed_while>>

config == <<estimate, estimate_mode_type>>
accumulators == <<total_runtime, mod_runtimes>>
orders == <<mod_fw_pre_order, mod_bw_pre_order, mod_fw_post_order, mod_bw_post_order>>
tracker == <<parents, is_bw, user_hooks, tracker_entered>>
history == <<elapsed, elapsed_while>>

\* ---------------------------------------------------------------- helpers
RECURSIVE Rep(_, _)
Rep(e, n) == IF n = 0 THEN << >> ELSE <<e>> \o Rep(e, n - 1)

EmptyRuntimes == [s \in {} |-> 0]
NoneElapsed == [s \in Scopes |-> [p \in Phases |-> 0]]

\* No operands, no outputs: the shape of an operation the cost models never see.
NoShape == [args |-> << >>, outs |-> << >>, flop_count |-> 0, gbps |-> 1, tflops |-> 1]

NoOp == [op |-> "none", shape |-> NoShape, n_fake |-> 0, real_outs |-> << >>, cuda_time |-> 0, raised |-> "none", cause |-> "none", site |-> "none", how |-> "none",
         outs |-> << >>, op_time |-> 0, trace |-> << >>, fallback |-> FALSE]

\* ----------------------------------------------------- estimation strategies
\* One real output of the kernel, as map_out sees it:
\*   input   the real tensor made from a symbolic operand (id(e) in inp_impls)
\*   alias   a tensor sharing an input's storage whose id is not in inp_impls
\*   fresh   any other tensor
\*   scalar  not a tensor
OutKinds == {"input", "alias", "fresh", "scalar"}
OutSeqs == UNION {[1..n -> OutKinds] : n \in 1..MaxOuts}

KernelExceptions == {"RuntimeError", "NotImplementedError"}
\* The interval between the two events, in ms: nothing measurable, or 1 ms a run.
CudaTimes == {0, actual_iters}

\* The steps of one benchmark, with the start marker recorded before the warm-up.
ProtocolTimingWarmup(n_fake) ==
    Rep("to_real_tensor", n_fake) \o <<"func", "start_event.record">>
        \o Rep("func", warmup_iters) \o Rep("func", actual_iters)
        \o <<"end_event.record", "synchronize", "elapsed_time">>

\* The steps of one benchmark, in program order.
Protocol(n_fake) ==
    Rep("to_real_tensor", n_fake) \o <<"func">> \o Rep("func", warmup_iters)
        \o <<"start_event.record">> \o Rep("func", actual_iters)
        \o <<"end_event.record", "synchronize", "elapsed_time">>

\* map_out, returning the real tensor made from a symbolic operand as it is.
MapOutKeepingReal(e) ==
    CASE e = "fresh" -> "fake_new"
      [] OTHER -> e

\* map_out of one output once the unsupported-aliasing test has passed.
map_out(e) ==
    CASE e = "input" -> "fake_operand"
      [] e = "fresh" -> "fake_new"
      [] OTHER -> e

\* First output at which tree_map(map_out, r) stops: an aliasing output raises
\* orig_not_implemented_exception, a fresh output raises when from_real_tensor fails.
FirstStop(outs, convert_fails) ==
    LET stops == {i \in 1..Len(outs) :
                     \/ outs[i] = "alias"
                     \/ outs[i] = "fresh" /\ convert_fails}
    IN IF stops = {} THEN 0 ELSE CHOOSE i \in stops : \A j \in stops : i <= j

Result(exc, site, how, outs, t, trace, fb) ==
    [raised |-> exc, cause |-> exc, site |-> site, how |-> how, outs |-> outs,
     op_time |-> t, trace |-> trace, fallback |-> fb, cuda_time |-> 0]

\* The fallback kernel, testing the inplace_view tag after the benchmark has run.
FallbackKernelLateTagCheck(func, n_fake, fail_at, exc, outs, cuda_time) ==
    LET steps == Protocol(n_fake)
    IN  IF fail_at \in 1..Len(steps)
        THEN Result(exc, "kernel", "none", << >>, 0, SubSeq(steps, 1, fail_at - 1), FALSE)
        ELSE IF func \in InplaceViewOps
        THEN Result("NotImplementedError", "inplace_view", "none", << >>, 0, steps, FALSE)
        ELSE Result("none", "none", "mapped", [i \in 1..Len(outs) |-> map_out(outs[i])],
                    cuda_time \div actual_iters, steps, FALSE)

\* fail_at = 0: nothing fails; fail_at in 1..Len(Protocol): that step raises exc;
\* fail_at = Len(Protocol) + 1: from_real_tensor raises exc.
_maybe_run_and_benchmark_fallback_kernel(func, n_fake, fail_at, exc, outs, cuda_time) ==
    LET steps == Protocol(n_fake)
        stop == FirstStop(outs, fail_at = Len(steps) + 1)
        mean_op_time == cuda_time \div actual_iters
    IN  IF func \in InplaceViewOps
        THEN Result("NotImplementedError", "inplace_view", "none", << >>, 0, << >>, FALSE)
        ELSE IF fail_at \in 1..Len(steps)
        THEN Result(exc, "kernel", "none", << >>, 0, SubSeq(steps, 1, fail_at - 1), FALSE)
        ELSE IF stop # 0 /\ outs[stop] = "alias"
        THEN Result("NotImplementedError", "map_out", "none", << >>, 0, steps, FALSE)
        ELSE IF stop # 0
        THEN Result(exc, "from_real_tensor", "none", << >>, 0, steps, FALSE)
        ELSE [Result("none", "none", "mapped", [i \in 1..Len(outs) |-> map_out(outs[i])],
                     mean_op_time, steps, FALSE)
                 EXCEPT !.cuda_time = cuda_time]

\* _benchmark_estimate without the except clause: every exception propagates.
BenchmarkEstimateNoExcept(func, n_fake, fail_at, exc, outs, cuda_time) ==
    IF func \in _VIEW_OPS
    THEN Result("none", "none", "symbolic", << >>, 0, << >>, FALSE)
    ELSE _maybe_run_and_benchmark_fallback_kernel(func, n_fake, fail_at, exc, outs,
                                                  cuda_time)

\* _benchmark_estimate with "except Exception": every failure is downgraded.
BenchmarkEstimateExceptAll(func, n_fake, fail_at, exc, outs, cuda_time) ==
    LET fb == _maybe_run_and_benchmark_fallback_kernel(func, n_fake, fail_at, exc,
                                                        outs, cuda_time)
    IN  IF func \in _VIEW_OPS
        THEN Result("none", "none", "symbolic", << >>, 0, << >>, FALSE)
        ELSE IF fb.raised = "none"
        THEN fb
        ELSE [Result("none", fb.site, "symbolic", << >>, 0, fb.trace, TRUE)
                 EXCEPT !.cause = fb.raised]

_benchmark_estimate(func, n_fake, fail_at, exc, outs, cuda_time) ==
    LET fb == _maybe_run_and_benchmark_fallback_kernel(func, n_fake, fail_at, exc,
                                                        outs, cuda_time)
    IN  IF fake_mode = "unset"
        THEN Result("AssertionError", "assert", "none", << >>, 0, << >>, FALSE)
        ELSE IF func \in _VIEW_OPS
        THEN Result("none", "none", "symbolic", << >>, 0, << >>, FALSE)
        ELSE IF fb.raised = "none"
        THEN fb
        ELSE IF fb.raised = "NotImplementedError"
        THEN [Result("none", fb.site, "symbolic", << >>, 0, fb.trace, TRUE)
                 EXCEPT !.cause = fb.raised]
        ELSE fb

\* -------------------------------------------------- the cost-model strategies
\* What the cost models read of one operation: its flattened operands and outputs
\* (a tensor's dtype and storage size in bytes, or a non-tensor), the value the
\* registered flop formula returns, get_gpu_dram_gbps() and
\* get_device_tflops(dtype).  Times on this path are in ns; peak throughput is in
\* FLOP/ns, which folds the factors 1e15 and 1e9, and the closing division by 1e6
\* (ns to ms) rescales both arguments of max alike and is left out.
_PYTORCH_MIN_ALLOCATE == 512
_float_types == {"float16", "bfloat16", "float32", "float64"}
flop_registry == {"mm"}

MaxModelOuts == 2   \* outputs of one operation under a cost model

Dtypes == {"float16", "float32", "int64"}
TensorBytes == {1, _PYTORCH_MIN_ALLOCATE + 1}
Scalar == [dtype |-> "none", nbytes |-> 0]
ArgValues == {Scalar} \cup [dtype : {"float32"}, nbytes : TensorBytes]
OutValues == {Scalar} \cup [dtype : Dtypes, nbytes : TensorBytes]
\* Bandwidths divide _PYTORCH_MIN_ALLOCATE and FlopCounts are multiples of
\* 6 * Peaks, so that every division below is exact on integers.
Bandwidths == {1, 2}
Peaks == {1, 2}
FlopCounts == {0, 6 * _PYTORCH_MIN_ALLOCATE}

Shapes ==
    [args : UNION {[1..n -> ArgValues] : n \in 0..MaxOperands},
     outs : UNION {[1..n -> OutValues] : n \in 1..MaxModelOuts},
     flop_count : FlopCounts, gbps : Bandwidths, tflops : Peaks]

\* One float32 operand and one float32 output of a matrix multiply.
StepShape ==
    [args |-> <<[dtype |-> "float32", nbytes |-> 1]>>,
     outs |-> <<[dtype |-> "float32", nbytes |-> 1]>>,
     flop_count |-> 6 * _PYTORCH_MIN_ALLOCATE, gbps |-> 1, tflops |-> 1]

Max(a, b) == IF a >= b THEN a ELSE b

\* math.ceil(num_bytes / _PYTORCH_MIN_ALLOCATE) * _PYTORCH_MIN_ALLOCATE
get_num_bytes(t) ==
    ((t.nbytes + _PYTORCH_MIN_ALLOCATE - 1) \div _PYTORCH_MIN_ALLOCATE)
        * _PYTORCH_MIN_ALLOCATE

\* sum(get_num_bytes(t) for t in ts if isinstance(t, torch.Tensor))
RECURSIVE SumBytes(_)
SumBytes(ts) ==
    IF ts = << >> THEN 0
    ELSE (IF Head(ts).dtype # "none" THEN get_num_bytes(Head(ts)) ELSE 0)
             + SumBytes(Tail(ts))

\* The body of _get_transfer_time.
transfer_time(shape) == (SumBytes(shape.args) + SumBytes(shape.outs)) \div shape.gbps

\* {t.dtype for t in flat_outs if isinstance(t, torch.Tensor) and t.dtype in _float_types}
out_dtypes(shape) ==
    {shape.outs[i].dtype : i \in 1..Len(shape.outs)} \cap _float_types

\* get_compute_time: the assertion, then (flop_count / 2) / (0.75 * peak).
get_compute_time(func, shape) ==
    IF func \in flop_registry
    THEN IF Cardinality(out_dtypes(shape)) # 1
         THEN [raised |-> "AssertionError", time |-> 0]
         ELSE [raised |-> "none",
               time |-> ((shape.flop_count \div 2) * 4) \div (3 * shape.tflops)]
    ELSE [raised |-> "none", time |-> 0]

\* A classmethod receives cls before the arguments passed at the call site.
_get_transfer_time_params == 2
_learned_estimate_predictor_params == 5
ClassmethodCall(params, passed) ==
    IF passed + 1 = params THEN "none" ELSE "TypeError"

\* _get_transfer_time declared with cls as its first parameter.
GetTransferTimeCallable == ClassmethodCall(_get_transfer_time_params + 1, 2)

\* cls._get_transfer_time(flat_args_kwargs, flat_outs)
_get_transfer_time == ClassmethodCall(_get_transfer_time_params, 2)

\* cls._learned_estimate_predictor(func_packet, args, kwargs, out, out_dtypes);
\* its body registers aten.mm in flop_registry again, which raises RuntimeError.
_learned_estimate_predictor ==
    IF ClassmethodCall(_learned_estimate_predictor_params, 5) # "none"
    THEN ClassmethodCall(_learned_estimate_predictor_params, 5)
    ELSE "RuntimeError"

_roofline_estimate(func, cuda_available, shape) ==
    LET compute == get_compute_time(func, shape)
    IN  IF ~cuda_available
        THEN Result("AssertionError", "assert", "none", << >>, 0, << >>, FALSE)
        ELSE IF func \in _IGNORE_OPS
        THEN Result("none", "none", "symbolic", << >>, 0, << >>, FALSE)
        ELSE IF _get_transfer_time # "none"
        THEN Result(_get_transfer_time, "_get_transfer_time", "none", << >>, 0, << >>,
                    FALSE)
        ELSE IF compute.raised # "none"
        THEN Result(compute.raised, "get_compute_time", "none", << >>, 0, << >>, FALSE)
        ELSE Result("none", "none", "symbolic", << >>,
                    Max(transfer_time(shape), compute.time), << >>, FALSE)

_learned_estimate(func, cuda_available, shape) ==
    IF ~cuda_available
    THEN Result("AssertionError", "assert", "none", << >>, 0, << >>, FALSE)
    ELSE IF func \in _IGNORE_OPS
    THEN Result("none", "none", "symbolic", << >>, 0, << >>, FALSE)
    ELSE IF _get_transfer_time # "none"
    THEN Result(_get_transfer_time, "_get_transfer_time", "none", << >>, 0, << >>, FALSE)
    ELSE Result(_learned_estimate_predictor, "_learned_estimate_predictor", "none",
                << >>, 0, << >>, FALSE)

\* self._estimate(func, args, kwargs)
Estimate(func, n_fake, fail_at, exc, outs, cuda_time, cuda_available, shape) ==
    CASE estimate = "_benchmark_estimate" ->
            _benchmark_estimate(func, n_fake, fail_at, exc, outs, cuda_time)
      [] estimate = "_roofline_estimate" -> _roofline_estimate(func, cuda_available, shape)
      [] estimate = "_learned_estimate" -> _learned_estimate(func, cuda_available, shape)
      [] OTHER -> Result("AttributeError", "self._estimate", "none", << >>, 0, << >>, FALSE)


\* ------------------------------------------------------------ attribution
\* Scope nesting: M.L is a submodule of M.
Parent(s) == IF s = "M.L" THEN {"M"} ELSE {}
Children(s) == {c \in Scopes : s \in Parent(c)}

Get(mr, s, p) == IF s \in DOMAIN mr /\ p \in DOMAIN mr[s] THEN mr[s][p] ELSE 0

\* Attribute, adding the time to one open scope only.
AttributeOneScope(mr, open, phase, op_time) ==
    LET one == IF open = {} THEN {} ELSE {CHOOSE s \in open : Parent(s) \cap open = {}}
    IN  [s \in DOMAIN mr \cup one |->
            IF s \in one
            THEN [p \in (IF s \in DOMAIN mr THEN DOMAIN mr[s] ELSE {}) \cup {phase} |->
                     IF p = phase THEN Get(mr, s, p) + op_time ELSE mr[s][p]]
            ELSE mr[s]]

\* for par in parents: mod_runtimes[par][phase] += op_time   (nested defaultdicts)
Attribute(mr, open, phase, op_time) ==
    [s \in DOMAIN mr \cup open |->
        IF s \in open
        THEN [p \in (IF s \in DOMAIN mr THEN DOMAIN mr[s] ELSE {}) \cup {phase} |->
                 IF p = phase THEN Get(mr, s, p) + op_time ELSE mr[s][p]]
        ELSE mr[s]]

Phase == IF is_bw THEN "bw" ELSE "fw"

\* Entries of the four execution order logs.
Recorded == Len(mod_fw_pre_order) + Len(mod_bw_pre_order)
                + Len(mod_fw_post_order) + Len(mod_bw_post_order)

\* Accumulate, adding the time once per open scope.
AccumulatePerScope(total, op_time) == total + op_time * Cardinality(parents)

\* self.total_runtime += op_time
Accumulate(total, op_time) == total + op_time

\* ----------------------------------------------------------------- actions
Init ==
    /\ estimate = "unset"
    /\ estimate_mode_type = "unset"
    /\ active = 0
    /\ fake_mode = "unset"
    /\ no_fallback_kernel = {}
    /\ total_runtime = 0
    /\ mod_runtimes = EmptyRuntimes
    /\ mod_fw_pre_order = << >>
    /\ mod_bw_pre_order = << >>
    /\ mod_fw_post_order = << >>
    /\ mod_bw_post_order = << >>
    /\ parents = {}
    /\ is_bw = FALSE
    /\ user_hooks = {}
    /\ tracker_entered = FALSE
    /\ live_fake_mode \in {"None", "FakeTensorMode"}
    /\ raised = "none"
    /\ last_op = NoOp
    /\ printed = {}
    /\ dirty_at_enter = FALSE
    /\ elapsed = 0
    /\ elapsed_while = NoneElapsed

\* RuntimeEstimator.__call__(estimate_mode_type) with estimate_mode_type = name
CallWith(name) ==
    /\ IF name = "operator-level-benchmark"
       THEN /\ estimate' = "_benchmark_estimate"
            /\ estimate_mode_type' = name
            /\ raised' = "none"
       ELSE IF name = "operator-level-cost-model"
       THEN /\ estimate' = "_roofline_estimate"
            /\ estimate_mode_type' = name
            /\ raised' = "none"
       ELSE IF name = "operator-level-learned-model"
       THEN /\ estimate' = "_learned_estimate"
            /\ estimate_mode_type' = name
            /\ raised' = "none"
       ELSE /\ raised' = "NotImplementedError"
            /\ UNCHANGED config
    /\ dirty_at_enter' = FALSE
    /\ UNCHANGED <<active, fake_mode, no_fallback_kernel, accumulators, orders,
                   tracker, live_fake_mode, last_op, printed, history>>

Call == \E name \in ModeNames : CallWith(name)

\* __enter__, clearing the accumulators before the FakeTensorMode assertion.
EnterClearingFirst ==
    /\ active = 0
    /\ IF live_fake_mode # "FakeTensorMode"
       THEN /\ raised' = "AssertionError"
            /\ total_runtime' = 0
            /\ mod_runtimes' = EmptyRuntimes
            /\ UNCHANGED <<active, fake_mode, orders, tracker, history>>
            /\ dirty_at_enter' = FALSE
       ELSE /\ fake_mode' = live_fake_mode
            /\ total_runtime' = 0
            /\ mod_runtimes' = EmptyRuntimes
            /\ mod_fw_pre_order' = << >>
            /\ mod_bw_pre_order' = << >>
            /\ mod_fw_post_order' = << >>
            /\ mod_bw_post_order' = << >>
            /\ user_hooks' = HookNames
            /\ tracker_entered' = TRUE
            /\ active' = active + 1
            /\ raised' = "none"
            /\ dirty_at_enter' = (/\ total_runtime > 0
                                   /\ mod_runtimes # EmptyRuntimes
                                   /\ Recorded > 0)
            /\ elapsed' = 0
            /\ elapsed_while' = NoneElapsed
            /\ UNCHANGED <<parents, is_bw>>
    /\ UNCHANGED <<config, no_fallback_kernel, live_fake_mode, last_op, printed>>

\* __enter__, leaving the scope records and the order logs as they were.
EnterKeepingRecords ==
    /\ active = 0
    /\ IF live_fake_mode # "FakeTensorMode"
       THEN /\ raised' = "AssertionError"
            /\ UNCHANGED <<active, fake_mode, accumulators, orders, tracker, history>>
            /\ dirty_at_enter' = FALSE
       ELSE /\ fake_mode' = live_fake_mode
            /\ total_runtime' = 0
            /\ user_hooks' = HookNames
            /\ tracker_entered' = TRUE
            /\ active' = active + 1
            /\ raised' = "none"
            /\ dirty_at_enter' = (/\ total_runtime > 0
                                   /\ mod_runtimes # EmptyRuntimes
                                   /\ Recorded > 0)
            /\ elapsed' = 0
            /\ elapsed_while' = NoneElapsed
            /\ UNCHANGED <<mod_runtimes, orders, parents, is_bw>>
    /\ UNCHANGED <<config, no_fallback_kernel, live_fake_mode, last_op, printed>>

\* RuntimeEstimator.__enter__
Enter ==
    /\ active = 0
    /\ IF live_fake_mode # "FakeTensorMode"
       THEN /\ raised' = "AssertionError"
            /\ UNCHANGED <<active, fake_mode, accumulators, orders, tracker, history>>
            /\ dirty_at_enter' = FALSE
       ELSE /\ fake_mode' = live_fake_mode
            /\ total_runtime' = 0
            /\ mod_runtimes' = EmptyRuntimes
            /\ mod_fw_pre_order' = << >>
            /\ mod_bw_pre_order' = << >>
            /\ mod_fw_post_order' = << >>
            /\ mod_bw_post_order' = << >>
            /\ user_hooks' = HookNames
            /\ tracker_entered' = TRUE
            /\ active' = active + 1
            /\ raised' = "none"
            /\ dirty_at_enter' = (/\ total_runtime > 0
                                   /\ mod_runtimes # EmptyRuntimes
                                   /\ Recorded > 0)
            /\ elapsed' = 0
            /\ elapsed_while' = NoneElapsed
            /\ UNCHANGED <<parents, is_bw>>
    /\ UNCHANGED <<config, no_fallback_kernel, live_fake_mode, last_op, printed>>

\* __exit__, resetting the accumulators.
ExitResetting ==
    /\ active > 0
    /\ IF estimate_mode_type = "unset"
       THEN /\ raised' = "AttributeError"
            /\ printed' = {}
            /\ UNCHANGED <<active, user_hooks, accumulators>>
       ELSE /\ printed' = no_fallback_kernel
            /\ active' = active - 1
            /\ user_hooks' = {}
            /\ raised' = "none"
            /\ total_runtime' = 0
            /\ mod_runtimes' = EmptyRuntimes
    /\ dirty_at_enter' = FALSE
    /\ UNCHANGED <<config, fake_mode, no_fallback_kernel, orders,
                   parents, is_bw, tracker_entered, live_fake_mode, last_op, history>>

\* RuntimeEstimator.__exit__
Exit ==
    /\ active > 0
    /\ IF estimate_mode_type = "unset"
       THEN /\ raised' = "AttributeError"
            /\ printed' = {}
            /\ UNCHANGED <<active, user_hooks>>
       ELSE /\ printed' = no_fallback_kernel
            /\ active' = active - 1
            /\ user_hooks' = {}
            /\ raised' = "none"
    /\ dirty_at_enter' = FALSE
    /\ UNCHANGED <<config, fake_mode, no_fallback_kernel, accumulators, orders,
                   parents, is_bw, tracker_entered, live_fake_mode, last_op, history>>

\* The inputs of one intercepted operation: the operation kind, the number of
\* symbolic operands, the step that fails (0: none) with its exception, the real
\* outputs, the timed interval and whether CUDA is available.  Inputs the selected
\* strategy never reads are held at one value.
BenchInputs(funcs, operands, outseqs, fails, excs) ==
    {[func |-> f, n_fake |-> n, fail_at |-> k, exc |-> e, outs |-> o,
      cuda_time |-> c, cuda_available |-> TRUE, shape |-> StepShape] :
        f \in funcs, n \in operands, k \in fails, e \in excs, o \in outseqs,
        c \in CudaTimes}

WellFormed(in) ==
    /\ in.fail_at <= Len(Protocol(in.n_fake)) + 1
    /\ \A i \in 1..Len(in.outs) : in.outs[i] = "input" => in.n_fake > 0
    /\ in.fail_at = 0 => in.exc = "RuntimeError"
    /\ in.fail_at \in 1..Len(Protocol(in.n_fake)) =>
          in.outs \in {<<"scalar">>, <<"fresh">>} /\ in.cuda_time = 0
    /\ in.fail_at = Len(Protocol(in.n_fake)) + 1 =>
          in.cuda_time = 0 /\ \E i \in 1..Len(in.outs) : in.outs[i] = "fresh"

\* Without CUDA and for an ignored operation the shape is never read; the flop
\* count and the peak throughput are read only for a registered operation.
ModelInputs(funcs, shapes) ==
    {in \in [func : funcs, n_fake : {MaxOperands}, fail_at : {0}, exc : {"RuntimeError"},
             outs : {<<"fresh">>}, cuda_time : {0}, cuda_available : BOOLEAN,
             shape : shapes \cup {StepShape}] :
        /\ (~in.cuda_available \/ in.func \in _IGNORE_OPS) => in.shape = StepShape
        /\ in.func \notin flop_registry =>
              in.shape.flop_count = StepShape.flop_count
                  /\ in.shape.tflops = StepShape.tflops}

\* RuntimeEstimator.__torch_dispatch__ on one input
Intercept(in) ==
    LET r == Estimate(in.func, in.n_fake, in.fail_at, in.exc, in.outs, in.cuda_time,
                      in.cuda_available, in.shape)
    IN  /\ last_op' = [op |-> in.func, shape |-> in.shape, n_fake |-> in.n_fake,
                        real_outs |-> in.outs] @@ r
        /\ raised' = r.raised
        /\ no_fallback_kernel' =
              IF r.fallback THEN no_fallback_kernel \cup {in.func}
              ELSE no_fallback_kernel
        /\ IF r.raised = "none"
           THEN /\ mod_runtimes' = Attribute(mod_runtimes, parents, Phase, r.op_time)
                /\ total_runtime' = Accumulate(total_runtime, r.op_time)
                /\ elapsed' = elapsed + r.op_time
                /\ elapsed_while' =
                      [s \in Scopes |-> [p \in Phases |->
                          IF s \in parents /\ (p = "bw") = is_bw
                          THEN elapsed_while[s][p] + r.op_time
                          ELSE elapsed_while[s][p]]]
           ELSE UNCHANGED <<accumulators, history>>
        /\ dirty_at_enter' = FALSE
        /\ UNCHANGED <<config, active, fake_mode, orders, tracker, live_fake_mode,
                       printed>>

DispatchOver(funcs, operands, outseqs, fails, excs, shapes) ==
    /\ active > 0
    /\ total_runtime < MaxTotal
    /\ \E in \in IF estimate = "_benchmark_estimate"
                 THEN BenchInputs(funcs, operands, outseqs, fails, excs)
                 ELSE ModelInputs(funcs, shapes) :
          /\ WellFormed(in)
          /\ Intercept(in)

\* Operations of a training step: a view, a matrix multiply, an in-place transpose.
StepOps == {"view", "mm"}

\* The operations of a training step; the kernel succeeds or its first run fails.
Dispatch ==
    DispatchOver(StepOps, {MaxOperands}, {<<"fresh">>}, {0, MaxOperands + 1},
                 {"RuntimeError"}, {StepShape})

\* Every operation kind with every shape of operands and outputs.
DispatchAny ==
    DispatchOver(Ops, 0..MaxOperands, OutSeqs, 0..(Len(Protocol(MaxOperands)) + 1),
                 KernelExceptions, Shapes)

\* The symbolic execution context is entered or left by the caller.
FakeModeChange ==
    /\ active = 0
    /\ live_fake_mode' = IF live_fake_mode = "None" THEN "FakeTensorMode" ELSE "None"
    /\ dirty_at_enter' = FALSE
    /\ UNCHANGED <<config, active, fake_mode, no_fallback_kernel, accumulators, orders,
                   tracker, raised, last_op, printed, history>>

\* --------------------------------------------------- the call-scope tracker
CanRecord == user_hooks = {} \/ Recorded < MaxEvents

\* The four hooks __enter__ registers; s is get_known_fqn(mod).
\* pre_fw_hook, inserting the name at the front of the log.
PreFwHookPrepending(s) == <<s>> \o mod_fw_pre_order

pre_fw_hook(s) == Append(mod_fw_pre_order, s)
pre_bw_hook(s) == Append(mod_bw_pre_order, s)
post_fw_hook(s) == Append(mod_fw_post_order, s)
post_bw_hook(s) == Append(mod_bw_post_order, s)

PreFwAt(s) ==
    /\ tracker_entered /\ ~is_bw
    /\ s \notin parents /\ Parent(s) \subseteq parents
    /\ parents' = parents \cup {s}
    /\ mod_fw_pre_order' = IF "pre_fw_hook" \in user_hooks THEN pre_fw_hook(s) ELSE mod_fw_pre_order
    /\ dirty_at_enter' = FALSE
    /\ UNCHANGED <<config, active, fake_mode, no_fallback_kernel, accumulators,
                   mod_bw_pre_order, mod_fw_post_order, mod_bw_post_order, is_bw,
                   user_hooks, tracker_entered, live_fake_mode, raised, last_op,
                   printed, history>>

PostFwAt(s) ==
    /\ tracker_entered /\ ~is_bw
    /\ s \in parents /\ Children(s) \cap parents = {}
    /\ parents' = parents \ {s}
    /\ mod_fw_post_order' = IF "post_fw_hook" \in user_hooks THEN post_fw_hook(s) ELSE mod_fw_post_order
    /\ dirty_at_enter' = FALSE
    /\ UNCHANGED <<config, active, fake_mode, no_fallback_kernel, accumulators,
                   mod_fw_pre_order, mod_bw_pre_order, mod_bw_post_order, is_bw,
                   user_hooks, tracker_entered, live_fake_mode, raised, last_op,
                   printed, history>>

PreBwAt(s) ==
    /\ tracker_entered /\ is_bw
    /\ s \notin parents /\ Parent(s) \subseteq parents
    /\ parents' = parents \cup {s}
    /\ mod_bw_pre_order' = IF "pre_bw_hook" \in user_hooks THEN pre_bw_hook(s) ELSE mod_bw_pre_order
    /\ dirty_at_enter' = FALSE
    /\ UNCHANGED <<config, active, fake_mode, no_fallback_kernel, accumulators,
                   mod_fw_pre_order, mod_fw_post_order, mod_bw_post_order, is_bw,
                   user_hooks, tracker_entered, live_fake_mode, raised, last_op,
                   printed, history>>

PostBwAt(s) ==
    /\ tracker_entered /\ is_bw
    /\ s \in parents /\ Children(s) \cap parents = {}
    /\ parents' = parents \ {s}
    /\ mod_bw_post_order' = IF "post_bw_hook" \in user_hooks THEN post_bw_hook(s) ELSE mod_bw_post_order
    /\ dirty_at_enter' = FALSE
    /\ UNCHANGED <<config, active, fake_mode, no_fallback_kernel, accumulators,
                   mod_fw_pre_order, mod_bw_pre_order, mod_fw_post_order, is_bw,
                   user_hooks, tracker_entered, live_fake_mode, raised, last_op,
                   printed, history>>

PreFw == CanRecord /\ \E s \in Scopes : PreFwAt(s)
PostFw == CanRecord /\ \E s \in Scopes : PostFwAt(s)
PreBw == CanRecord /\ \E s \in Scopes : PreBwAt(s)
PostBw == CanRecord /\ \E s \in Scopes : PostBwAt(s)

PhaseChange ==
    /\ tracker_entered
    /\ is_bw' = ~is_bw
    /\ dirty_at_enter' = FALSE
    /\ UNCHANGED <<config, active, fake_mode, no_fallback_kernel, accumulators, orders,
                   parents, user_hooks, tracker_entered, live_fake_mode, raised,
                   last_op, printed, history>>

Next ==
    \/ Call
    \/ Enter
    \/ Exit
    \/ Dispatch
    \/ FakeModeChange
    \/ PreFw
    \/ PostFw
    \/ PreBw
    \/ PostBw
    \/ PhaseChange

Spec == Init /\ [][Next]_vars


\* -------------------------------------------- one operation, every input
\* An activated, configured estimator (after __call__ and __enter__), possibly
\* re-activated while a scope is open.
InitEstimate ==
    /\ \E name \in {"operator-level-benchmark", "operator-level-cost-model",
                    "operator-level-learned-model"} :
          /\ estimate_mode_type = name
          /\ estimate = CASE name = "operator-level-benchmark" -> "_benchmark_estimate"
                          [] name = "operator-level-cost-model" -> "_roofline_estimate"
                          [] OTHER -> "_learned_estimate"
    /\ active = 1
    /\ fake_mode = "FakeTensorMode"
    /\ no_fallback_kernel = {}
    /\ total_runtime = 0
    /\ mod_runtimes = EmptyRuntimes
    /\ mod_fw_pre_order = << >>
    /\ mod_bw_pre_order = << >>
    /\ mod_fw_post_order = << >>
    /\ mod_bw_post_order = << >>
    /\ parents \in {{}, {"M"}}
    /\ is_bw \in BOOLEAN
    /\ user_hooks = HookNames
    /\ tracker_entered = TRUE
    /\ live_fake_mode = "FakeTensorMode"
    /\ raised = "none"
    /\ last_op = NoOp
    /\ printed = {}
    /\ dirty_at_enter = FALSE
    /\ elapsed = 0
    /\ elapsed_while = NoneElapsed

\* The first operation of the window, over every input.
DispatchFirst ==
    /\ last_op = NoOp
    /\ DispatchAny

NextEstimate == DispatchFirst

SpecEstimate == InitEstimate /\ [][NextEstimate]_vars

\* ------------------------------------------- one window, event by event
\* The tracker events of one active window, with the operations of a training
\* step intercepted in between.
PreFwEvent == Recorded < MaxLog /\ \E s \in Scopes : PreFwAt(s)
PostFwEvent == Recorded < MaxLog /\ \E s \in Scopes : PostFwAt(s)
PreBwEvent == Recorded < MaxLog /\ \E s \in Scopes : PreBwAt(s)
PostBwEvent == Recorded < MaxLog /\ \E s \in Scopes : PostBwAt(s)

NextEvents ==
    \/ PreFwEvent
    \/ PostFwEvent
    \/ PreBwEvent
    \/ PostBwEvent
    \/ PhaseChange
    \/ Dispatch

SpecEvents == InitEstimate /\ [][NextEvents]_vars

\* ------------------------------------ the class attributes, two instances
\* The operation kinds a benchmark downgrades here: an in-place view and a
\* matrix multiply whose output aliases an operand.
FallbackOps == {"transpose_", "mm"}

\* An operation whose output is new or aliases an operand, benchmarked.
DispatchAliasing ==
    DispatchOver(FallbackOps, {MaxOperands}, {<<"fresh">>, <<"alias">>}, {0},
                 {"RuntimeError"}, {StepShape})

\* A second RuntimeEstimator, configured with "operator-level-benchmark", runs a
\* whole window while this one is inactive: its __enter__ assigns the class
\* attribute fake_mode, its _benchmark_estimate downgrades an operation of kind f
\* and adds it to the class attribute _no_fallback_kernel, its __exit__ prints.
PeerWindow ==
    \E f \in FallbackOps :
        /\ active = 0
        /\ live_fake_mode = "FakeTensorMode"
        /\ fake_mode' = live_fake_mode
        /\ no_fallback_kernel' = no_fallback_kernel \cup {f}
        /\ printed' = no_fallback_kernel \cup {f}
        /\ dirty_at_enter' = FALSE
        /\ UNCHANGED <<config, active, accumulators, orders, tracker, live_fake_mode,
                       raised, last_op, history>>

NextShared ==
    \/ Call
    \/ Enter
    \/ Exit
    \/ DispatchAliasing
    \/ FakeModeChange
    \/ PeerWindow

SpecShared == Init /\ [][NextShared]_vars

\* ================================================================ properties

\* C1: while the estimator is active, mod_runtimes[S][P] is the sum of the elapsed
\* times the strategy returned for the operations intercepted while the tracker
\* reported S open in phase P; a parent scope's total is at least its child's.
C1_ScopeAttribution ==
    active > 0 =>
        /\ \A s \in Scopes, p \in Phases : Get(mod_runtimes, s, p) = elapsed_while[s][p]
        /\ \A s \in Scopes : \A c \in Children(s) : \A p \in Phases :
              Get(mod_runtimes, s, p) >= Get(mod_runtimes, c, p)

\* C1 witness: two operations of 1 ms, one with M open and one with M and M.L open.
C1_Witness ==
    /\ active > 0
    /\ Get(mod_runtimes, "M", "fw") = 2
    /\ Get(mod_runtimes, "M.L", "fw") = 1

\* C2: in an active window total_runtime is the sum of the elapsed times of all
\* operations intercepted since the last activation, each counted once whatever
\* the number of open scopes and the phase.
C2_TotalIsSum == active > 0 => total_runtime = elapsed

\* C2 witness: 2 ms from two operations, only one of them with a scope open.
C2_Witness ==
    /\ active > 0
    /\ total_runtime = 2
    /\ Get(mod_runtimes, "M", "bw") = 1
    /\ Get(mod_runtimes, "M", "fw") = 0

\* C3: every __exit__ after a successful __enter__ unregisters the four callbacks
\* and removes the interception, however the active window ended.
C3_ExitUnregisters == [][Exit => (user_hooks' = {} /\ active' = 0)]_vars

\* C4 as stated: when __exit__ returns, the accumulators hold their reset values.
C4_ExitResets ==
    [][(Exit /\ raised' = "none") =>
          (total_runtime' = 0 /\ mod_runtimes' = EmptyRuntimes)]_vars

\* C4 as amended: __exit__ leaves total_runtime, the scope runtime records and the
\* order logs exactly as the window left them, also after an operation raised.
C4_ExitKeepsAccumulators == [][Exit => UNCHANGED <<accumulators, orders>>]_vars

\* C4 witness: deactivated after an operation raised RuntimeError, totals kept.
C4_Witness ==
    /\ active = 0
    /\ tracker_entered
    /\ user_hooks = {}
    /\ raised = "none"
    /\ last_op.raised = "RuntimeError"
    /\ total_runtime = 1
    /\ Get(mod_runtimes, "M", "fw") = 1

\* C5: __enter__ without a live FakeTensorMode raises and changes neither
\* total_runtime, the scope records, the order logs, the hook registration,
\* the shared fake_mode reference nor the activation.
C5_FailedEnterTouchesNothing ==
    [][(Enter /\ live_fake_mode # "FakeTensorMode") =>
          /\ raised' = "AssertionError"
          /\ UNCHANGED <<accumulators, orders, tracker, fake_mode, active>>]_vars

\* C5 witness: a failed activation after a window that left totals and a log.
C5_Witness ==
    /\ raised = "AssertionError"
    /\ active = 0
    /\ live_fake_mode = "None"
    /\ fake_mode = "FakeTensorMode"
    /\ total_runtime > 0
    /\ mod_runtimes # EmptyRuntimes
    /\ Recorded > 0

\* C6: when __enter__ succeeds, total_runtime is 0, the scope records are empty
\* and the four order logs are empty, whatever the previous activation left.
C6_EnterClears ==
    [][(Enter /\ live_fake_mode = "FakeTensorMode") =>
          /\ active' = 1
          /\ total_runtime' = 0
          /\ mod_runtimes' = EmptyRuntimes
          /\ mod_fw_pre_order' = << >>
          /\ mod_bw_pre_order' = << >>
          /\ mod_fw_post_order' = << >>
          /\ mod_bw_post_order' = << >>]_vars

\* C6 witness: just re-activated over non-zero totals and a non-empty log.
C6_Witness ==
    /\ dirty_at_enter
    /\ active = 1
    /\ total_runtime = 0
    /\ Recorded = 0

\* C7: an operation of _VIEW_OPS or _CREATE_OPS gets 0 ms under every strategy
\* and leaves total_runtime and the scope records as they were (the first
\* operation of a window: zero).
C7_IgnoredOpsZero ==
    (last_op.op \in _IGNORE_OPS /\ last_op.raised = "none") =>
        /\ last_op.op_time = 0
        /\ total_runtime = 0
        /\ \A s \in Scopes, p \in Phases : Get(mod_runtimes, s, p) = 0

\* C8: unsupported aliasing found by map_out is recovered: the kind is recorded
\* in _no_fallback_kernel, the symbolic result is returned with 0 ms and nothing
\* is raised.
C8_AliasingRecovered ==
    last_op.site = "map_out" =>
        /\ last_op.op \in no_fallback_kernel
        /\ last_op.how = "symbolic"
        /\ last_op.op_time = 0
        /\ last_op.raised = "none"
        /\ raised = "none"
        /\ total_runtime = 0

\* C8 witness: a matrix multiply whose output aliased an input.
C8_Witness ==
    /\ last_op.site = "map_out"
    /\ last_op.op = "mm"
    /\ Len(last_op.trace) = Len(Protocol(MaxOperands))
    /\ no_fallback_kernel = {"mm"}

\* C9 as stated: a failure of realization, execution, timing or output mapping
\* other than unsupported aliasing propagates, is not downgraded and adds nothing
\* to _no_fallback_kernel.
C9_OtherFailuresFatal ==
    last_op.site \in {"kernel", "from_real_tensor"} =>
        /\ last_op.raised # "none"
        /\ last_op.how = "none"
        /\ no_fallback_kernel = {}

\* C9 as amended: such a failure propagates unchanged unless it is a
\* NotImplementedError; a NotImplementedError is downgraded like unsupported
\* aliasing.
C9_NonNotImplementedFatal ==
    last_op.site \in {"kernel", "from_real_tensor"} =>
        IF last_op.cause # "NotImplementedError"
        THEN /\ last_op.raised = last_op.cause
             /\ raised = last_op.cause
             /\ last_op.how = "none"
             /\ no_fallback_kernel = {}
             /\ total_runtime = 0
        ELSE /\ last_op.raised = "none"
             /\ last_op.how = "symbolic"
             /\ last_op.op_time = 0
             /\ no_fallback_kernel = {last_op.op}

\* C9 witness: the timed runs raised RuntimeError and it reached the caller.
C9_Witness ==
    /\ last_op.site = "kernel"
    /\ last_op.raised = "RuntimeError"
    /\ raised = "RuntimeError"
    /\ Len(last_op.trace) > MaxOperands + 1 + warmup_iters

\* C10: under the benchmark strategy an inplace_view operation is rejected before
\* any operand is realized and before the kernel runs, and is then executed
\* symbolically with 0 ms.
C10_InplaceViewNeverRealized ==
    (estimate = "_benchmark_estimate" /\ last_op.op \in InplaceViewOps) =>
        /\ last_op.trace = << >>
        /\ last_op.how = "symbolic"
        /\ last_op.op_time = 0
        /\ last_op.raised = "none"
        /\ total_runtime = 0

\* C10 witness: an in-place transpose with symbolic operands was intercepted.
C10_Witness ==
    /\ estimate = "_benchmark_estimate"
    /\ last_op.op = "transpose_"
    /\ last_op.site = "inplace_view"
    /\ last_op.how = "symbolic"

\* C11: __call__ raises NotImplementedError exactly for the names the docstring
\* does not list as supported; for a listed name it selects a strategy, records
\* the name and raises nothing.
C11_DocumentedModesAccepted ==
    [][\A name \in ModeNames :
          CallWith(name) =>
              IF name \in DocumentedModes
              THEN /\ raised' = "none"
                   /\ estimate_mode_type' = name
                   /\ estimate' # "unset"
              ELSE /\ raised' = "NotImplementedError"
                   /\ UNCHANGED config]_vars

C13_RooflineIsMaxTransferCompute ==
    (/\ estimate = "_roofline_estimate"
     /\ last_op.op \in Ops \ _IGNORE_OPS
     /\ last_op.site # "assert"
     /\ Cardinality(out_dtypes(last_op.shape)) <= 1) =>
        /\ last_op.raised = "none"
        /\ last_op.op_time =
              Max((SumBytes(last_op.shape.args) + SumBytes(last_op.shape.outs))
                      \div last_op.shape.gbps,
                  IF last_op.op \in flop_registry
                  THEN ((last_op.shape.flop_count \div 2) * 4) \div (3 * last_op.shape.tflops)
                  ELSE 0)

\* C14: a tracker event of scope s appends s to the end of the log of its own
\* kind and leaves the three other logs, the scope records and total_runtime as
\* they were; no other step of an active window changes a log.
C14_EventsAppendOwnLog ==
    [][/\ \A s \in Scopes :
             /\ PreFwAt(s) =>
                   /\ mod_fw_pre_order' = Append(mod_fw_pre_order, s)
                   /\ UNCHANGED <<mod_bw_pre_order, mod_fw_post_order,
                                  mod_bw_post_order, accumulators>>
             /\ PreBwAt(s) =>
                   /\ mod_bw_pre_order' = Append(mod_bw_pre_order, s)
                   /\ UNCHANGED <<mod_fw_pre_order, mod_fw_post_order,
                                  mod_bw_post_order, accumulators>>
             /\ PostFwAt(s) =>
                   /\ mod_fw_post_order' = Append(mod_fw_post_order, s)
                   /\ UNCHANGED <<mod_fw_pre_order, mod_bw_pre_order,
                                  mod_bw_post_order, accumulators>>
             /\ PostBwAt(s) =>
                   /\ mod_bw_post_order' = Append(mod_bw_post_order, s)
                   /\ UNCHANGED <<mod_fw_pre_order, mod_bw_pre_order,
                                  mod_fw_post_order, accumulators>>
       /\ (active > 0 /\ parents' = parents) => UNCHANGED orders]_vars

\* C14 witness: M entered, M.L entered and left, with an operation intercepted.
C14_Witness ==
    /\ active > 0
    /\ mod_fw_pre_order = <<"M", "M.L">>
    /\ mod_fw_post_order = <<"M.L">>
    /\ mod_bw_pre_order = << >>
    /\ mod_bw_post_order = << >>
    /\ total_runtime > 0

\* C15: a benchmark that succeeds realized every symbolic operand before the
\* first run of the kernel, ran the kernel once, then warmup_iters (2) times,
\* recorded the start marker, ran it actual_iters (3) times, recorded the end
\* marker, synchronized and only then read the interval; the kernel ran 6 times
\* in all and the reported time is the interval divided by 3.
C15_BenchmarkProtocol ==
    last_op.how = "mapped" =>
        LET t == last_op.trace
            At(x) == {i \in DOMAIN t : t[i] = x}
            start == CHOOSE i \in At("start_event.record") : TRUE
            end == CHOOSE i \in At("end_event.record") : TRUE
            sync == CHOOSE i \in At("synchronize") : TRUE
            read == CHOOSE i \in At("elapsed_time") : TRUE
        IN  /\ Cardinality(At("to_real_tensor")) = last_op.n_fake
            /\ \A i \in At("to_real_tensor"), j \in At("func") : i < j
            /\ Cardinality(At("func")) = 1 + warmup_iters + actual_iters
            /\ \A x \in {"start_event.record", "end_event.record", "synchronize",
                         "elapsed_time"} : Cardinality(At(x)) = 1
            /\ Cardinality({j \in At("func") : j < start}) = 1 + warmup_iters
            /\ Cardinality({j \in At("func") : start < j /\ j < end}) = actual_iters
            /\ end < sync /\ sync < read /\ read = Len(t)
            /\ last_op.op_time * actual_iters = last_op.cuda_time

\* C15 witness: a matrix multiply with one symbolic operand was benchmarked and
\* the three timed runs took 3 ms.
C15_Witness ==
    /\ last_op.how = "mapped"
    /\ last_op.op = "mm"
    /\ last_op.n_fake = MaxOperands
    /\ last_op.cuda_time = actual_iters
    /\ total_runtime = 1

\* C16: under the benchmark strategy every real output is mapped back: the tensor
\* made from a symbolic operand becomes that operand, any other tensor becomes a
\* new symbolic placeholder, a non-tensor is returned as it is; a tensor sharing
\* an input's storage without being one of the realized operands aborts the
\* realization, and the operation is executed symbolically.  No returned result
\* holds a real tensor.
C16_OutputsMappedBack ==
    (/\ estimate = "_benchmark_estimate"
     /\ last_op.op # "none"
     /\ last_op.raised = "none") =>
        LET real == last_op.real_outs
            done == Len(last_op.trace) = Len(Protocol(last_op.n_fake))
        IN  /\ \A i \in DOMAIN last_op.outs :
                  last_op.outs[i] \notin {"input", "alias", "fresh"}
            /\ last_op.how = "mapped" =>
                  /\ DOMAIN last_op.outs = DOMAIN real
                  /\ \A i \in DOMAIN real :
                        /\ real[i] # "alias"
                        /\ real[i] = "input" => last_op.outs[i] = "fake_operand"
                        /\ real[i] = "fresh" => last_op.outs[i] = "fake_new"
                        /\ real[i] = "scalar" => last_op.outs[i] = "scalar"
            /\ (done /\ last_op.op \notin InplaceViewOps
                  /\ \E i \in DOMAIN real : real[i] = "alias") =>
                  /\ last_op.how = "symbolic"
                  /\ last_op.fallback
                  /\ last_op.op \in no_fallback_kernel
                  /\ last_op.op_time = 0

\* C16 witness: the kernel returned the real tensor made from its symbolic
\* operand, and the estimator returned the operand.
C16_Witness ==
    /\ estimate = "_benchmark_estimate"
    /\ last_op.how = "mapped"
    /\ last_op.real_outs = <<"input">>
    /\ last_op.outs = <<"fake_operand">>

\* C17: _no_fallback_kernel never loses a kind, whichever instance acts; it grows
\* only by the kind of an operation whose benchmark was downgraded; and every
\* __exit__ that runs while it is non-empty prints all of it.
C17_FallbackSetAppendOnlyReported ==
    [][/\ no_fallback_kernel \subseteq no_fallback_kernel'
       /\ no_fallback_kernel' # no_fallback_kernel =>
             \/ PeerWindow
             \/ /\ last_op'.fallback
                /\ no_fallback_kernel' = no_fallback_kernel \cup {last_op'.op}
       /\ (Exit /\ no_fallback_kernel # {}) => printed' = no_fallback_kernel]_vars

====
